---- MODULE Spec2Model ----
(***************************************************************************)
(* A model of mlpack's data::ScalingModel                                  *)
(* (src/mlpack/methods/preprocess/scaling_model_impl.hpp): a selector that *)
(* owns up to six heap-allocated scaler strategies through six raw         *)
(* pointers and dispatches Fit / Transform / InverseTransform on an        *)
(* integer tag.  The heap is modelled explicitly (every "new" yields a     *)
(* fresh identity, every "delete" is recorded), so that ownership, sharing *)
(* and release can be checked.                                             *)
(*                                                                         *)
(* Floating-point epsilon is kept in units of 0.00001 (0.00005 is 5).      *)
(* Allocation failure (std::bad_alloc) is outside the model.               *)
(***************************************************************************)
EXTENDS Integers, FiniteSets, Sequences, TLC

VARIABLES
  sel,      \* selector identity -> the ScalingModel object's fields
  heap,     \* instance identity -> the strategy object stored there
  last,     \* the operation performed by the last step, and its outcome
  copyOf,   \* history: the selector each selector was last copied from (0: none)
  crashed,  \* the process was terminated by a fault
  nops,     \* operations performed so far
  elliot,   \* the call of ElliotFunction::Fn under way: input, output, position
  fitted,   \* history: the instance each selector's last completed Fit installed
  budget    \* operations the run may perform

vars == <<sel, heap, last, copyOf, crashed, nops, elliot, fitted, budget>>

-----------------------------------------------------------------------------
(* Bounds of the model. *)

NumSel == 2       \* selector objects created in one run
MaxInst == 3      \* strategy instances allocated in one run
NumData == 2      \* distinct datasets handed to Fit / Transform
MaxOps == 4       \* operations performed in one run
MaxRefitOps == 6  \* operations performed in a run of the single-selector scenario
MaxVecLen == 2    \* elements of a vector passed to ElliotFunction::Fn
MaxElem == 4      \* largest element of such a vector, in halves

Selectors == 1..NumSel
InstIds == 1..MaxInst
Data == 1..NumData

-----------------------------------------------------------------------------
(* Program constants. *)

NULL == 0

\* ScalerTypes; the tag a fresh or moved-from selector carries is 0.
NONE == 0
STANDARD_SCALER == 1
MIN_MAX_SCALER == 2
MEAN_NORMALIZATION == 3
MAX_ABS_SCALER == 4
PCAWHITENING == 5
ZCAWHITENING == 6

Tags == NONE..ZCAWHITENING

\* The values the move constructor leaves in the source object.
MovedMinValue == 0
MovedMaxValue == 1
MovedEpsilon == 5

\* Arguments the caller constructs selectors with: <<minvalue, maxvalue, epsilon>>.
CtorArgs == {<<0, 1, 5>>, <<-1, 2, 1>>}

Slots == {"minmaxscale", "maxabsscale", "meanscale", "standardscale",
          "pcascale", "zcascale"}

\* The strategy class each pointer member is declared with.
SlotKind(slot) ==
  CASE slot = "standardscale" -> STANDARD_SCALER
    [] slot = "minmaxscale" -> MIN_MAX_SCALER
    [] slot = "meanscale" -> MEAN_NORMALIZATION
    [] slot = "maxabsscale" -> MAX_ABS_SCALER
    [] slot = "pcascale" -> PCAWHITENING
    [] slot = "zcascale" -> ZCAWHITENING

-----------------------------------------------------------------------------
(* The heap of strategy instances. *)

Unallocated == [state |-> "unallocated", kind |-> 0, a |-> 0, b |-> 0, fit |-> 0, frees |-> 0]

\* What remains of a released instance: only how often it was released.
Released(n) == [state |-> "released", kind |-> 0, a |-> 0, b |-> 0, fit |-> 0, frees |-> n]

Min2(x, y) == IF x < y THEN x ELSE y

FreeIds(h) == {i \in InstIds : h[i].state = "unallocated"}

\* operator new: the next fresh identity.
NewId(h) == CHOOSE i \in FreeIds(h) : \A j \in FreeIds(h) : i <= j

\* new T(args): a constructed, not yet fitted strategy of class `kind`.
New(h, kind, a, b) ==
  [h EXCEPT ![NewId(h)] = [state |-> "live", kind |-> kind, a |-> a, b |-> b,
                           fit |-> 0, frees |-> 0]]

\* new T(*p): the strategy's copy constructor.
NewCopy(h, p) ==
  [h EXCEPT ![NewId(h)] = [h[p] EXCEPT !.state = "live", !.frees = 0]]

\* delete p: no effect on a null pointer; a second delete of the same instance
\* is recorded in frees.
Delete(h, p) ==
  IF p = NULL THEN h
  ELSE [h EXCEPT ![p] = Released(Min2(h[p].frees + 1, 2))]

\* The strategy's own Fit(input): on success the instance holds the parameters
\* computed from input; on failure it throws and the instance stays unfitted.
StrategyFit(h, p, input, ok) ==
  IF ok THEN [h EXCEPT ![p].fit = input] ELSE h

-----------------------------------------------------------------------------
(* Matrices and the strategies' arithmetic.  Elements are exact rationals    *)
(* <<numerator, denominator>> in lowest terms with a positive denominator.   *)

Abs(n) == IF n < 0 THEN -n ELSE n

Max2(x, y) == IF x < y THEN y ELSE x

\* The greatest common divisor of two naturals that are not both 0.
GCD(m, n) ==
  CHOOSE g \in 1..Max2(m, n) :
    /\ m % g = 0 /\ n % g = 0
    /\ \A k \in (g + 1)..Max2(m, n) : ~(m % k = 0 /\ n % k = 0)

\* n / d in lowest terms, d # 0.
Rat(n, d) ==
  LET g == GCD(Abs(n), Abs(d))
      sign == IF d < 0 THEN -1 ELSE 1
  IN <<(sign * n) \div g, Abs(d) \div g>>

RAdd(x, y) == Rat(x[1] * y[2] + y[1] * x[2], x[2] * y[2])
RSub(x, y) == Rat(x[1] * y[2] - y[1] * x[2], x[2] * y[2])
RMul(x, y) == Rat(x[1] * y[1], x[2] * y[2])
RDiv(x, y) == Rat(x[1] * y[2], x[2] * y[1])
RLess(x, y) == x[1] * y[2] < y[1] * x[2]
RAbs(x) == <<Abs(x[1]), x[2]>>

\* The square root of a rational that is the square of a rational.
RSqrt(x) ==
  <<CHOOSE k \in 0..x[1] : k * k = x[1], CHOOSE k \in 1..x[2] : k * k = x[2]>>

\* Row statistics of a one-feature matrix (a sequence of elements).
RowSum(m) ==
  LET acc[i \in 0..Len(m)] == IF i = 0 THEN <<0, 1>> ELSE RAdd(acc[i - 1], m[i])
  IN acc[Len(m)]

RowMean(m) == RDiv(RowSum(m), <<Len(m), 1>>)

RowMin(m) == CHOOSE x \in {m[i] : i \in 1..Len(m)} : \A i \in 1..Len(m) : ~RLess(m[i], x)

RowMax(m) == CHOOSE x \in {m[i] : i \in 1..Len(m)} : \A i \in 1..Len(m) : ~RLess(x, m[i])

\* The standard deviation arma::stddev(m, 1, 1) normalised by the number of points.
RowStddev(m) ==
  LET dev2 == [i \in 1..Len(m) |->
                 RMul(RSub(m[i], RowMean(m)), RSub(m[i], RowMean(m)))]
  IN RSqrt(RDiv(RowSum(dev2), <<Len(m), 1>>))

\* The datasets callers pass: one feature, two points, standard deviation
\* rational, no constant feature.
Dataset(d) == <<<<-6 * d, 1>>, <<2 * d, 1>>>>

\* A value passed as input or written to output: a matrix val, to which the
\* transforms listed in trail (not computed by the model) were then applied.
Matrix(m) == [tag |-> "matrix", val |-> m, trail |-> <<>>]

NoOutput == [tag |-> "none", val |-> <<>>, trail |-> <<>>]

Garbage == [tag |-> "garbage", val |-> <<>>, trail |-> <<>>]

\* The scalers whose transform is an affine map of each element.
LinearKinds == {STANDARD_SCALER, MIN_MAX_SCALER, MEAN_NORMALIZATION, MAX_ABS_SCALER}

\* Whether the model computes inst's transforms of input.
Computed(inst, input) ==
  /\ inst.state = "live"
  /\ inst.kind \in LinearKinds
  /\ inst.fit # 0
  /\ input.tag = "matrix"
  /\ input.trail = <<>>

\* What a fitted linear scaler subtracts and divides by, y = (x - shift) / scale:
\*   standard:            shift = mean, scale = stddev
\*   mean normalization:  shift = mean, scale = max - min
\*   max-abs:             shift = 0,    scale = max |x|
\*   min-max to [a, b]:   scale = (max - min) / (b - a), shift = min - a * scale
FitShift(inst) ==
  LET m == Dataset(inst.fit)
  IN CASE inst.kind = STANDARD_SCALER -> RowMean(m)
       [] inst.kind = MEAN_NORMALIZATION -> RowMean(m)
       [] inst.kind = MAX_ABS_SCALER -> <<0, 1>>
       [] inst.kind = MIN_MAX_SCALER ->
            RSub(RowMin(m),
                 RMul(<<inst.a, 1>>,
                      RDiv(RSub(RowMax(m), RowMin(m)), <<inst.b - inst.a, 1>>)))

FitScale(inst) ==
  LET m == Dataset(inst.fit)
  IN CASE inst.kind = STANDARD_SCALER -> RowStddev(m)
       [] inst.kind = MEAN_NORMALIZATION -> RSub(RowMax(m), RowMin(m))
       [] inst.kind = MAX_ABS_SCALER ->
            IF RLess(RAbs(RowMax(m)), RAbs(RowMin(m)))
              THEN RAbs(RowMin(m)) ELSE RAbs(RowMax(m))
       [] inst.kind = MIN_MAX_SCALER ->
            RDiv(RSub(RowMax(m), RowMin(m)), <<inst.b - inst.a, 1>>)

\* The step a transform the model does not compute leaves in the trail.
TrailStep(dir, inst) == <<dir, inst.kind, inst.a, inst.b, inst.fit>>

\* The strategy's own Transform(input, output): for a fitted linear scaler the
\* affine map above; for whitening, an unfitted instance or an input that is
\* no plain matrix, a function of the instance's class, constructor arguments
\* and fitted data that the model does not compute.
StrategyTransform(inst, input) ==
  IF Computed(inst, input)
    THEN Matrix([i \in 1..Len(input.val) |->
                   RDiv(RSub(input.val[i], FitShift(inst)), FitScale(inst))])
    ELSE [tag |-> "matrix", val |-> input.val,
          trail |-> Append(input.trail, TrailStep(1, inst))]

\* The strategy's own InverseTransform(input, output).
StrategyInverseTransform(inst, input) ==
  IF Computed(inst, input)
    THEN Matrix([i \in 1..Len(input.val) |->
                   RAdd(RMul(input.val[i], FitScale(inst)), FitShift(inst))])
    ELSE [tag |-> "matrix", val |-> input.val,
          trail |-> Append(input.trail, TrailStep(-1, inst))]

-----------------------------------------------------------------------------
(* ElliotFunction (activation_functions/elliot_function.hpp). *)

\* No call of ElliotFunction::Fn is under way.
NoCall == [pc |-> "idle", x |-> <<>>, y |-> <<>>, error |-> FALSE]

\* The elements and vectors Fn is called with.
ElemVals == {Rat(n, 2) : n \in -MaxElem..MaxElem}

ElliotInputs == UNION {[1..n -> ElemVals] : n \in 1..MaxVecLen}

\* static double Fn(const double x): x / (1.0 + std::abs(x))
Fn(x) == RDiv(x, RAdd(<<1, 1>>, RAbs(x)))

\* arma's operator* on two vectors of the same orientation, a matrix product:
\* defined for one element each, a std::logic_error (incompatible matrix
\* dimensions) otherwise.
ArmaTimes(u, v) ==
  IF Len(u) = 1 /\ Len(v) = 1
    THEN [error |-> FALSE, val |-> <<RMul(u[1], v[1])>>]
    ELSE [error |-> TRUE, val |-> <<>>]

\* static void Fn(const InputVecType& x, OutputVecType& y):
\* y = x * (1.0 + arma::abs(x))
FnVec(x) == ArmaTimes(x, [i \in 1..Len(x) |-> RAdd(<<1, 1>>, RAbs(x[i]))])

-----------------------------------------------------------------------------
(* Selector objects. *)

\* Storage that holds no selector (before construction, after destruction).
NoObject(status) ==
  [status |-> status, scalerType |-> 0,
   minmaxscale |-> NULL, maxabsscale |-> NULL, meanscale |-> NULL,
   standardscale |-> NULL, pcascale |-> NULL, zcascale |-> NULL,
   minValue |-> 0, maxValue |-> 0, epsilon |-> 0]

Alive(s) == sel[s].status = "alive"

\* The instances a selector object refers to.
Owned(obj) == {obj[slot] : slot \in Slots} \ {NULL}

NoLast == [op |-> "none", self |-> 0, other |-> 0, result |-> "ok", inst |-> NULL,
           input |-> NoOutput, out |-> NoOutput]

Did(op, self, other) == [NoLast EXCEPT !.op = op, !.self = self, !.other = other]

\* The object ScalingModel(minvalue, maxvalue, epsilonvalue) initializes.
Constructed(minvalue, maxvalue, epsilonvalue) ==
  [status |-> "alive", scalerType |-> 0,
   minmaxscale |-> NULL, maxabsscale |-> NULL, meanscale |-> NULL,
   standardscale |-> NULL, pcascale |-> NULL, zcascale |-> NULL,
   minValue |-> minvalue, maxValue |-> maxvalue, epsilon |-> epsilonvalue]

\* The run starts with the first selector constructed and nothing allocated.
Init ==
  /\ \E c \in CtorArgs :
       sel = [s \in Selectors |->
                IF s = 1 THEN Constructed(c[1], c[2], c[3]) ELSE NoObject("unborn")]
  /\ heap = [i \in InstIds |-> Unallocated]
  /\ last = Did("Construct", 1, 0)
  /\ copyOf = [s \in Selectors |-> 0]
  /\ crashed = FALSE
  /\ nops = 0
  /\ fitted = [s \in Selectors |-> NULL]
  /\ budget = MaxOps
  /\ elliot = NoCall

\* The program is running and performs one more operation on its selectors;
\* the activation function is not involved.
Tick ==
  /\ ~crashed
  /\ nops < budget
  /\ nops' = nops + 1
  /\ UNCHANGED <<elliot, budget>>

\* Objects are numbered in the order they come into being.
IsNext(self) ==
  /\ sel[self].status = "unborn"
  /\ \A s \in Selectors : s < self => sel[s].status # "unborn"

\* ScalingModel(minvalue, maxvalue, epsilonvalue)
Construct(self, minvalue, maxvalue, epsilonvalue) ==
  /\ Tick
  /\ IsNext(self)
  /\ sel' = [sel EXCEPT ![self] = Constructed(minvalue, maxvalue, epsilonvalue)]
  /\ last' = Did("Construct", self, 0)
  /\ UNCHANGED <<heap, copyOf, crashed, fitted>>

\* ScalerType() = t, through the accessor that returns the tag by reference.
SetScalerType(self, t) ==
  /\ Tick
  /\ Alive(self)
  /\ sel[self].scalerType # t
  /\ sel' = [sel EXCEPT ![self].scalerType = t]
  /\ last' = Did("SetScalerType", self, 0)
  /\ UNCHANGED <<heap, copyOf, crashed, fitted>>

\* The order in which the copy constructor's initializers are written.
CopyOrder == <<"minmaxscale", "maxabsscale", "pcascale", "zcascale", "meanscale",
               "standardscale">>

\* The order in which operator= and the destructor go through the pointers.
AssignOrder == <<"minmaxscale", "maxabsscale", "standardscale", "meanscale",
                 "pcascale", "zcascale">>

\* CloneSlot as a shallow copy would do it: slot = other.slot.
CloneSlotShallow(st, src, slot, release) ==
  LET h1 == IF release THEN Delete(st.h, st.obj[slot]) ELSE st.h
  IN [h |-> h1, obj |-> [st.obj EXCEPT ![slot] = src[slot]]]

\* One pointer of a copy: (delete slot;) slot = other.slot == NULL ? NULL : new T(*other.slot)
CloneSlot(st, src, slot, release) ==
  LET h1 == IF release THEN Delete(st.h, st.obj[slot]) ELSE st.h
  IN IF src[slot] = NULL
       THEN [h |-> h1, obj |-> [st.obj EXCEPT ![slot] = NULL]]
       ELSE [h |-> NewCopy(h1, src[slot]), obj |-> [st.obj EXCEPT ![slot] = NewId(h1)]]

\* All six pointers of a copy, in `order`; yields the heap and the target object.
CloneSlots(h, obj, src, order, release) ==
  LET st[i \in 0..Len(order)] ==
        IF i = 0 THEN [h |-> h, obj |-> obj]
        ELSE CloneSlot(st[i - 1], src, order[i], release)
  IN st[Len(order)]

\* Whether the heap has room for a copy of every instance src refers to.
RoomToCopy(h, src) ==
  Cardinality({slot \in Slots : src[slot] # NULL}) <= Cardinality(FreeIds(h))

\* ScalingModel(const ScalingModel& other)
CopyConstruct(self, other) ==
  /\ Tick
  /\ IsNext(self)
  /\ Alive(other)
  /\ RoomToCopy(heap, sel[other])
  /\ LET fresh == [NoObject("alive") EXCEPT
                     !.minValue = sel[other].minValue,
                     !.scalerType = sel[other].scalerType,
                     !.maxValue = sel[other].maxValue,
                     !.epsilon = sel[other].epsilon]
         st == CloneSlots(heap, fresh, sel[other], CopyOrder, FALSE)
     IN /\ sel' = [sel EXCEPT ![self] = st.obj]
        /\ heap' = st.h
  /\ last' = Did("CopyConstruct", self, other)
  /\ copyOf' = [copyOf EXCEPT ![self] = other]
  /\ UNCHANGED <<crashed, fitted>>

\* MoveConstruct without "other.minmaxscale = NULL".
MoveConstructKeepsPointer(self, other) ==
  /\ Tick
  /\ IsNext(self)
  /\ Alive(other)
  /\ sel' = [sel EXCEPT
       ![self] = [sel[other] EXCEPT !.status = "alive"],
       ![other] = [Constructed(MovedMinValue, MovedMaxValue, MovedEpsilon) EXCEPT
                     !.minmaxscale = sel[other].minmaxscale]]
  /\ last' = Did("MoveConstruct", self, other)
  /\ UNCHANGED <<heap, copyOf, crashed, fitted>>

\* ScalingModel(ScalingModel&& other)
MoveConstruct(self, other) ==
  /\ Tick
  /\ IsNext(self)
  /\ Alive(other)
  /\ sel' = [sel EXCEPT
       ![self] = [status |-> "alive",
                  scalerType |-> sel[other].scalerType,
                  minmaxscale |-> sel[other].minmaxscale,
                  maxabsscale |-> sel[other].maxabsscale,
                  pcascale |-> sel[other].pcascale,
                  zcascale |-> sel[other].zcascale,
                  meanscale |-> sel[other].meanscale,
                  standardscale |-> sel[other].standardscale,
                  epsilon |-> sel[other].epsilon,
                  minValue |-> sel[other].minValue,
                  maxValue |-> sel[other].maxValue],
       ![other] = [status |-> "alive",
                   scalerType |-> 0,
                   minmaxscale |-> NULL,
                   maxabsscale |-> NULL,
                   meanscale |-> NULL,
                   standardscale |-> NULL,
                   pcascale |-> NULL,
                   zcascale |-> NULL,
                   minValue |-> MovedMinValue,
                   maxValue |-> MovedMaxValue,
                   epsilon |-> MovedEpsilon]]
  /\ last' = Did("MoveConstruct", self, other)
  /\ UNCHANGED <<heap, copyOf, crashed, fitted>>

\* CopyAssign without the deletes: the instances held before are leaked.
CopyAssignLeaking(self, other) ==
  /\ Tick
  /\ Alive(self)
  /\ Alive(other)
  /\ IF self = other
       THEN UNCHANGED <<sel, heap, copyOf>>
       ELSE /\ RoomToCopy(heap, sel[other])
            /\ LET tagged == [sel[self] EXCEPT !.scalerType = sel[other].scalerType]
                   st == CloneSlots(heap, tagged, sel[other], AssignOrder, FALSE)
               IN /\ sel' = [sel EXCEPT ![self] =
                       [st.obj EXCEPT !.minValue = sel[other].minValue,
                                      !.maxValue = sel[other].maxValue,
                                      !.epsilon = sel[other].epsilon]]
                  /\ heap' = st.h
            /\ copyOf' = [copyOf EXCEPT ![self] = other]
  /\ last' = Did("CopyAssign", self, other)
  /\ UNCHANGED <<crashed, fitted>>

\* CopyAssign without the "this == &other" test: each pointer is deleted and
\* then copied from.
CopyAssignNoSelfTest(self, other) ==
  /\ Tick
  /\ Alive(self)
  /\ Alive(other)
  /\ RoomToCopy(heap, sel[other])
  /\ LET tagged == [sel[self] EXCEPT !.scalerType = sel[other].scalerType]
         st == CloneSlots(heap, tagged, sel[other], AssignOrder, TRUE)
     IN /\ sel' = [sel EXCEPT ![self] =
             [st.obj EXCEPT !.minValue = sel[other].minValue,
                            !.maxValue = sel[other].maxValue,
                            !.epsilon = sel[other].epsilon]]
        /\ heap' = st.h
  /\ copyOf' = IF self = other THEN copyOf ELSE [copyOf EXCEPT ![self] = other]
  /\ last' = Did("CopyAssign", self, other)
  /\ UNCHANGED <<crashed, fitted>>

\* ScalingModel& operator=(const ScalingModel& other)
CopyAssign(self, other) ==
  /\ Tick
  /\ Alive(self)
  /\ Alive(other)
  /\ IF self = other
       THEN UNCHANGED <<sel, heap, copyOf>>
       ELSE /\ RoomToCopy(heap, sel[other])
            /\ LET tagged == [sel[self] EXCEPT !.scalerType = sel[other].scalerType]
                   st == CloneSlots(heap, tagged, sel[other], AssignOrder, TRUE)
               IN /\ sel' = [sel EXCEPT ![self] =
                       [st.obj EXCEPT !.minValue = sel[other].minValue,
                                      !.maxValue = sel[other].maxValue,
                                      !.epsilon = sel[other].epsilon]]
                  /\ heap' = st.h
            /\ copyOf' = [copyOf EXCEPT ![self] = other]
  /\ last' = Did("CopyAssign", self, other)
  /\ UNCHANGED <<crashed, fitted>>

\* DeleteAll deleting only the pointer the tag selects.
DeleteTagged(h, obj) ==
  LET st[i \in 0..Len(AssignOrder)] ==
        IF i = 0 THEN h
        ELSE IF SlotKind(AssignOrder[i]) = obj.scalerType
          THEN Delete(st[i - 1], obj[AssignOrder[i]])
          ELSE st[i - 1]
  IN st[Len(AssignOrder)]

\* The six deletes of the destructor.
DeleteAll(h, obj) ==
  LET st[i \in 0..Len(AssignOrder)] ==
        IF i = 0 THEN h ELSE Delete(st[i - 1], obj[AssignOrder[i]])
  IN st[Len(AssignOrder)]

\* ~ScalingModel()
Destroy(self) ==
  /\ Tick
  /\ Alive(self)
  /\ heap' = DeleteAll(heap, sel[self])
  /\ sel' = [sel EXCEPT ![self] = NoObject("destroyed")]
  /\ last' = Did("Destroy", self, 0)
  /\ copyOf' = [s \in Selectors |->
                  IF s = self \/ copyOf[s] = self THEN 0 ELSE copyOf[s]]
  /\ fitted' = [fitted EXCEPT ![self] = NULL]
  /\ UNCHANGED crashed

\* FitInto without the delete: slot = new T(a, b); slot->Fit(input);
FitIntoKeepingOld(self, slot, a, b, input, ok) ==
  LET p == NewId(heap)
  IN /\ FreeIds(heap) # {}
     /\ sel' = [sel EXCEPT ![self][slot] = p]
     /\ heap' = StrategyFit(New(heap, SlotKind(slot), a, b), p, input, ok)
     /\ last' = [Did("Fit", self, 0) EXCEPT
                   !.result = IF ok THEN "ok" ELSE "StrategyFailure",
                   !.inst = p,
                   !.input = Matrix(Dataset(input))]

\* FitInto constructing the strategy without its arguments: slot = new T().
FitIntoNoArguments(self, slot, a, b, input, ok) ==
  LET h1 == Delete(heap, sel[self][slot])
      p == NewId(h1)
  IN /\ FreeIds(h1) # {}
     /\ sel' = [sel EXCEPT ![self][slot] = p]
     /\ heap' = StrategyFit(New(h1, SlotKind(slot), 0, 0), p, input, ok)
     /\ last' = [Did("Fit", self, 0) EXCEPT
                   !.result = IF ok THEN "ok" ELSE "StrategyFailure",
                   !.inst = p,
                   !.input = Matrix(Dataset(input))]

\* One branch of Fit: delete slot; slot = new T(a, b); slot->Fit(input);
FitInto(self, slot, a, b, input, ok) ==
  LET h1 == Delete(heap, sel[self][slot])
      p == NewId(h1)
  IN /\ FreeIds(h1) # {}
     /\ sel' = [sel EXCEPT ![self][slot] = p]
     /\ heap' = StrategyFit(New(h1, SlotKind(slot), a, b), p, input, ok)
     /\ last' = [Did("Fit", self, 0) EXCEPT
                   !.result = IF ok THEN "ok" ELSE "StrategyFailure",
                   !.inst = p,
                   !.input = Matrix(Dataset(input))]

\* Fit with a final else that falls back to the standard scaler.
FitFallsBackToStandard(self, input, ok) ==
  /\ Tick
  /\ Alive(self)
  /\ IF sel[self].scalerType = MIN_MAX_SCALER
       THEN FitInto(self, "minmaxscale", sel[self].minValue, sel[self].maxValue, input, ok)
     ELSE IF sel[self].scalerType = MEAN_NORMALIZATION
       THEN FitInto(self, "meanscale", 0, 0, input, ok)
     ELSE IF sel[self].scalerType = MAX_ABS_SCALER
       THEN FitInto(self, "maxabsscale", 0, 0, input, ok)
     ELSE IF sel[self].scalerType = PCAWHITENING
       THEN FitInto(self, "pcascale", sel[self].epsilon, 0, input, ok)
     ELSE IF sel[self].scalerType = ZCAWHITENING
       THEN FitInto(self, "zcascale", sel[self].epsilon, 0, input, ok)
     ELSE FitInto(self, "standardscale", 0, 0, input, ok)
  /\ fitted' = IF ok /\ last'.inst # NULL
                 THEN [fitted EXCEPT ![self] = last'.inst] ELSE fitted
  /\ UNCHANGED <<copyOf, crashed>>

\* void Fit(const MatType& input); ok: whether the strategy's Fit returns
\* normally.
Fit(self, input, ok) ==
  /\ Tick
  /\ Alive(self)
  /\ IF sel[self].scalerType = STANDARD_SCALER
       THEN FitInto(self, "standardscale", 0, 0, input, ok)
     ELSE IF sel[self].scalerType = MIN_MAX_SCALER
       THEN FitInto(self, "minmaxscale", sel[self].minValue, sel[self].maxValue, input, ok)
     ELSE IF sel[self].scalerType = MEAN_NORMALIZATION
       THEN FitInto(self, "meanscale", 0, 0, input, ok)
     ELSE IF sel[self].scalerType = MAX_ABS_SCALER
       THEN FitInto(self, "maxabsscale", 0, 0, input, ok)
     ELSE IF sel[self].scalerType = PCAWHITENING
       THEN FitInto(self, "pcascale", sel[self].epsilon, 0, input, ok)
     ELSE IF sel[self].scalerType = ZCAWHITENING
       THEN FitInto(self, "zcascale", sel[self].epsilon, 0, input, ok)
     ELSE /\ ok
          /\ last' = [Did("Fit", self, 0) EXCEPT !.input = Matrix(Dataset(input))]
          /\ UNCHANGED <<sel, heap>>
  /\ fitted' = IF ok /\ last'.inst # NULL
                 THEN [fitted EXCEPT ![self] = last'.inst] ELSE fitted
  /\ UNCHANGED <<copyOf, crashed>>

\* Delegate calling the forward transform in InverseTransform as well.
DelegateForwardOnly(self, slot, op, input) ==
  LET p == sel[self][slot]
  IN IF p = NULL
       THEN \E r \in {"fault", "garbage"} :
              /\ last' = [Did(op, self, 0) EXCEPT
                            !.result = r,
                            !.input = input,
                            !.out = IF r = "fault" THEN NoOutput ELSE Garbage]
              /\ crashed' = (r = "fault")
       ELSE /\ last' = [Did(op, self, 0) EXCEPT
                          !.result = "delegated",
                          !.inst = p,
                          !.input = input,
                          !.out = StrategyTransform(heap[p], input)]
            /\ UNCHANGED crashed

\* One branch of Transform / InverseTransform: slot->Transform(input, output).
\* Through a null pointer the call is undefined: the process faults, or the
\* call returns with output holding anything.
Delegate(self, slot, op, input) ==
  LET p == sel[self][slot]
  IN IF p = NULL
       THEN \E r \in {"fault", "garbage"} :
              /\ last' = [Did(op, self, 0) EXCEPT
                            !.result = r,
                            !.input = input,
                            !.out = IF r = "fault" THEN NoOutput ELSE Garbage]
              /\ crashed' = (r = "fault")
       ELSE /\ last' = [Did(op, self, 0) EXCEPT
                          !.result = "delegated",
                          !.inst = p,
                          !.input = input,
                          !.out = IF op = "Transform"
                                    THEN StrategyTransform(heap[p], input)
                                    ELSE StrategyInverseTransform(heap[p], input)]
            /\ UNCHANGED crashed

\* Dispatch with the pointers of the mean-normalization and the max-abs
\* branches exchanged.
DispatchCrossed(self, op, input) ==
  /\ Tick
  /\ Alive(self)
  /\ IF sel[self].scalerType = STANDARD_SCALER
       THEN Delegate(self, "standardscale", op, input)
     ELSE IF sel[self].scalerType = MIN_MAX_SCALER
       THEN Delegate(self, "minmaxscale", op, input)
     ELSE IF sel[self].scalerType = MEAN_NORMALIZATION
       THEN Delegate(self, "maxabsscale", op, input)
     ELSE IF sel[self].scalerType = MAX_ABS_SCALER
       THEN Delegate(self, "meanscale", op, input)
     ELSE IF sel[self].scalerType = PCAWHITENING
       THEN Delegate(self, "pcascale", op, input)
     ELSE IF sel[self].scalerType = ZCAWHITENING
       THEN Delegate(self, "zcascale", op, input)
     ELSE /\ last' = [Did(op, self, 0) EXCEPT !.result = "silent", !.input = input]
          /\ UNCHANGED crashed
  /\ UNCHANGED <<sel, heap, copyOf, fitted>>

\* The tag dispatch Transform and InverseTransform share; with no branch
\* taken the call returns without touching output.
Dispatch(self, op, input) ==
  /\ Tick
  /\ Alive(self)
  /\ IF sel[self].scalerType = STANDARD_SCALER
       THEN Delegate(self, "standardscale", op, input)
     ELSE IF sel[self].scalerType = MIN_MAX_SCALER
       THEN Delegate(self, "minmaxscale", op, input)
     ELSE IF sel[self].scalerType = MEAN_NORMALIZATION
       THEN Delegate(self, "meanscale", op, input)
     ELSE IF sel[self].scalerType = MAX_ABS_SCALER
       THEN Delegate(self, "maxabsscale", op, input)
     ELSE IF sel[self].scalerType = PCAWHITENING
       THEN Delegate(self, "pcascale", op, input)
     ELSE IF sel[self].scalerType = ZCAWHITENING
       THEN Delegate(self, "zcascale", op, input)
     ELSE /\ last' = [Did(op, self, 0) EXCEPT !.result = "silent", !.input = input]
          /\ UNCHANGED crashed
  /\ UNCHANGED <<sel, heap, copyOf, fitted>>

\* void Transform(const MatType& input, MatType& output)
Transform(self, input) == Dispatch(self, "Transform", input)

\* void InverseTransform(const MatType& input, MatType& output)
InverseTransform(self, input) == Dispatch(self, "InverseTransform", input)

Next ==
  \/ \E s \in Selectors, c \in CtorArgs : Construct(s, c[1], c[2], c[3])
  \/ \E s \in Selectors, t \in Tags : SetScalerType(s, t)
  \/ \E s \in Selectors, d \in Data, ok \in BOOLEAN : Fit(s, d, ok)
  \/ \E s \in Selectors, d \in Data : Transform(s, Matrix(Dataset(d)))
  \/ \E s \in Selectors, d \in Data : InverseTransform(s, Matrix(Dataset(d)))
  \/ \E s \in Selectors : last.result = "delegated" /\ InverseTransform(s, last.out)
  \/ \E s, o \in Selectors : CopyConstruct(s, o)
  \/ \E s, o \in Selectors : MoveConstruct(s, o)
  \/ \E s, o \in Selectors : CopyAssign(s, o)
  \/ \E s \in Selectors : Destroy(s)

Spec == Init /\ [][Next]_vars

-----------------------------------------------------------------------------
(* Exercising ElliotFunction::Fn on its own. *)

\* The rest of the program while the activation function is exercised.
NoSelectors ==
  /\ sel = [s \in Selectors |-> NoObject("unborn")]
  /\ heap = [i \in InstIds |-> Unallocated]
  /\ last = NoLast
  /\ copyOf = [s \in Selectors |-> 0]
  /\ crashed = FALSE
  /\ nops = 0
  /\ fitted = [s \in Selectors |-> NULL]
  /\ budget = 0

InitElliot ==
  /\ NoSelectors
  /\ \E x \in ElliotInputs : elliot = [NoCall EXCEPT !.pc = "start", !.x = x]

\* The caller applies the vector overload to x.
CallFnVector ==
  /\ elliot.pc = "start"
  /\ elliot' = [elliot EXCEPT !.pc = "vector",
                              !.y = FnVec(elliot.x).val,
                              !.error = FnVec(elliot.x).error]
  /\ UNCHANGED <<sel, heap, last, copyOf, crashed, nops, fitted, budget>>

\* The caller applies the scalar overload to each element of x.
CallFnScalar ==
  /\ elliot.pc = "start"
  /\ elliot' = [elliot EXCEPT !.pc = "scalar",
                              !.y = [i \in 1..Len(elliot.x) |-> Fn(elliot.x[i])]]
  /\ UNCHANGED <<sel, heap, last, copyOf, crashed, nops, fitted, budget>>

NextElliot ==
  \/ CallFnVector
  \/ CallFnScalar

SpecElliot == InitElliot /\ [][NextElliot]_vars

-----------------------------------------------------------------------------
(* One selector that is only configured, fitted and used: every Fit
   completes, and the run is long enough to change the tag and change it
   back. *)

InitRefit ==
  /\ \E c \in CtorArgs :
       sel = [s \in Selectors |->
                IF s = 1 THEN Constructed(c[1], c[2], c[3]) ELSE NoObject("unborn")]
  /\ heap = [i \in InstIds |-> Unallocated]
  /\ last = Did("Construct", 1, 0)
  /\ copyOf = [s \in Selectors |-> 0]
  /\ crashed = FALSE
  /\ nops = 0
  /\ elliot = NoCall
  /\ fitted = [s \in Selectors |-> NULL]
  /\ budget = MaxRefitOps

NextRefit ==
  \/ \E t \in Tags : SetScalerType(1, t)
  \/ \E d \in Data : Fit(1, d, TRUE)
  \/ \E d \in Data : Transform(1, Matrix(Dataset(d)))
  \/ \E d \in Data : InverseTransform(1, Matrix(Dataset(d)))

SpecRefit == InitRefit /\ [][NextRefit]_vars

-----------------------------------------------------------------------------
(* Properties. *)

\* The pointer members of obj that are set.
SetSlots(obj) == {slot \in Slots : obj[slot] # NULL}

\* obj owns an instance of the kind its tag selects.
HasMatching(obj) == \E slot \in SetSlots(obj) : SlotKind(slot) = obj.scalerType

\* What a caller can observe of selector s: its fields and the state of the
\* instances it refers to.
ViewOf(obj, h) == [obj |-> obj, insts |-> [p \in Owned(obj) |-> h[p]]]

View(s) == ViewOf(sel[s], heap)

\* What Transform on s would write to output for dataset d.
OutputOf(obj, h, d) ==
  {StrategyTransform(h[obj[slot]], Matrix(Dataset(d))) :
     slot \in {x \in SetSlots(obj) : SlotKind(x) = obj.scalerType}}

Output(s, d) == OutputOf(sel[s], heap, d)

\* The default empty state: tag NONE, bounds 0 and 1, epsilon 0.00005, nothing owned.
EmptyObject ==
  [status |-> "alive", scalerType |-> NONE,
   minmaxscale |-> NULL, maxabsscale |-> NULL, meanscale |-> NULL,
   standardscale |-> NULL, pcascale |-> NULL, zcascale |-> NULL,
   minValue |-> 0, maxValue |-> 1, epsilon |-> 5]

\* C1 (exclusivity, I1): in every reachable state each selector owns at most
\* one strategy instance, and if it owns one, the instance's kind is the
\* selector's scalerType.
C1_Exclusivity ==
  \A s \in Selectors :
    Alive(s) =>
      /\ Cardinality(SetSlots(sel[s])) <= 1
      /\ \A slot \in SetSlots(sel[s]) : heap[sel[s][slot]].kind = sel[s].scalerType

\* C2 (re-fit replaces, I2): a Fit that completes with tag T other than NONE
\* leaves the selector owning exactly one instance, the one this Fit installed,
\* of kind T, and every instance the selector owned before is released.
C2_RefitReplaces ==
  [][(last'.op = "Fit" /\ last'.result = "ok" /\ sel'[last'.self].scalerType # NONE) =>
       /\ Owned(sel'[last'.self]) = {last'.inst}
       /\ heap'[last'.inst].kind = sel'[last'.self].scalerType
       /\ heap'[last'.inst].fit # 0
       /\ \A p \in Owned(sel[last'.self]) : heap'[p].state = "released"]_vars

\* C3 (NotFitted): a Transform or InverseTransform on a selector that owns no
\* instance matching its scalerType ends in an explicit NotFitted error.
C3_NotFitted ==
  (last.op \in {"Transform", "InverseTransform"} /\ ~HasMatching(sel[last.self]))
    => last.result = "NotFitted"

\* C4 (move empties source): after B is move-constructed from A, B's pointers
\* are the ones A held (the instances themselves untouched), B has A's prior
\* tag, bounds and epsilon, A is in the default empty state, and A and B own
\* no instance in common.
C4_MoveEmptiesSource ==
  [][last'.op = "MoveConstruct" =>
       /\ \A slot \in Slots : sel'[last'.self][slot] = sel[last'.other][slot]
       /\ \A p \in Owned(sel[last'.other]) : heap'[p] = heap[p]
       /\ sel'[last'.self].scalerType = sel[last'.other].scalerType
       /\ sel'[last'.self].minValue = sel[last'.other].minValue
       /\ sel'[last'.self].maxValue = sel[last'.other].maxValue
       /\ sel'[last'.self].epsilon = sel[last'.other].epsilon
       /\ sel'[last'.other] = EmptyObject
       /\ Owned(sel'[last'.self]) \cap Owned(sel'[last'.other]) = {}]_vars

\* A selector has just been moved out of while it held a fitted instance and
\* non-default bounds and epsilon.
C4_Witness ==
  /\ last.op = "MoveConstruct"
  /\ \E p \in Owned(sel[last.self]) : heap[p].fit # 0
  /\ sel[last.self].minValue # 0
  /\ sel[last.self].epsilon # 5
  /\ sel[last.self].scalerType # NONE

\* C5 (deep-copy independence): a selector B copied from A shares no instance
\* with A, and an operation performed on one of the two leaves the other's
\* fields, owned instances, their fitted state and its Transform output
\* unchanged.
C5_DeepCopyIndependence ==
  [][\A a, b \in Selectors :
       (a # b /\ copyOf[b] = a /\ Alive(a) /\ Alive(b)) =>
         /\ Owned(sel[a]) \cap Owned(sel[b]) = {}
         /\ last'.self = b =>
              /\ View(a)' = View(a)
              /\ \A d \in Data : OutputOf(sel'[a], heap', d) = Output(a, d)
         /\ (last'.self = a /\ last'.op # "MoveConstruct") =>
              /\ View(b)' = View(b)
              /\ \A d \in Data : OutputOf(sel'[b], heap', d) = Output(b, d)]_vars

\* A copy has just been re-fitted on other data than the selector it was
\* copied from, which still holds its own fitted instance.
C5_Witness ==
  \E a, b \in Selectors :
    /\ a # b /\ copyOf[b] = a /\ Alive(a) /\ Alive(b)
    /\ last.op = "Fit" /\ last.self = b /\ last.result = "ok"
    /\ \E p \in Owned(sel[a]), q \in Owned(sel[b]) :
         /\ heap[p].kind = heap[q].kind
         /\ heap[p].fit # 0 /\ heap[q].fit # 0 /\ heap[p].fit # heap[q].fit

\* C6 (no partial-success Fit): a Fit in which the strategy's fit routine fails
\* leaves the selector in its prior ownership state or owning nothing; it owns
\* no unfitted instance, and every instance it owned before is still owned or
\* released.
C6_NoPartialFit ==
  [][(last'.op = "Fit" /\ last'.result = "StrategyFailure") =>
       /\ ViewOf(sel'[last'.self], heap') = ViewOf(sel[last'.self], heap) \/ Owned(sel'[last'.self]) = {}
       /\ \A p \in Owned(sel'[last'.self]) : heap'[p].fit # 0
       /\ \A p \in Owned(sel[last'.self]) :
            p \in Owned(sel'[last'.self]) \/ heap'[p].state = "released"]_vars

\* C7 (copy contents): after copy-construction or copy-assignment from a
\* distinct object, the target holds, for each kind, a newly allocated instance
\* with the source's fitted state iff the source holds one, and nothing
\* otherwise; tag, bounds and epsilon equal the source's; the source is
\* unchanged; every instance the target held before is released, once.
C7_CopyContents ==
  [][(last'.op \in {"CopyConstruct", "CopyAssign"} /\ last'.self # last'.other) =>
       /\ \A slot \in Slots :
            IF sel[last'.other][slot] = NULL
              THEN sel'[last'.self][slot] = NULL
              ELSE /\ sel'[last'.self][slot] # NULL
                   /\ heap[sel'[last'.self][slot]].state = "unallocated"
                   /\ heap'[sel'[last'.self][slot]] = heap[sel[last'.other][slot]]
                   /\ heap[sel[last'.other][slot]].state = "live"
       /\ Cardinality(Owned(sel'[last'.self])) = Cardinality(SetSlots(sel[last'.other]))
       /\ sel'[last'.self].scalerType = sel[last'.other].scalerType
       /\ sel'[last'.self].minValue = sel[last'.other].minValue
       /\ sel'[last'.self].maxValue = sel[last'.other].maxValue
       /\ sel'[last'.self].epsilon = sel[last'.other].epsilon
       /\ ViewOf(sel'[last'.other], heap') = ViewOf(sel[last'.other], heap)
       /\ \A p \in Owned(sel[last'.self]) :
            heap'[p].state = "released" /\ heap'[p].frees = 1]_vars

\* A selector that held an instance has just been assigned from another one
\* that holds a fitted instance: the old one is released, a new one is owned.
C7_Witness ==
  /\ last.op = "CopyAssign"
  /\ last.self # last.other
  /\ \E p \in Owned(sel[last.self]) : heap[p].fit # 0
  /\ \E p \in InstIds : heap[p].state = "released"
  /\ Cardinality({p \in InstIds : heap[p].state = "live"}) = 2

\* C8 (self-copy is a no-op): copy-assigning a selector to itself changes no
\* field of any selector and no instance: nothing is released or allocated.
C8_SelfCopyNoOp ==
  [][(last'.op = "CopyAssign" /\ last'.self = last'.other) =>
       /\ sel' = sel
       /\ heap' = heap
       /\ crashed' = crashed]_vars

\* A selector holding a fitted instance has just been assigned to itself.
C8_Witness ==
  /\ last.op = "CopyAssign"
  /\ last.self = last.other
  /\ \E p \in Owned(sel[last.self]) : heap[p].fit # 0

\* C9 (destroy releases everything): destroying a selector releases every
\* instance it holds, each once, and touches no other instance (none at all
\* when it holds none); once every selector is destroyed no instance remains
\* allocated.
C9_DestroyReleasesAll ==
  [][/\ last'.op = "Destroy" =>
          /\ \A p \in Owned(sel[last'.self]) :
               /\ heap[p].state = "live"
               /\ heap'[p].state = "released"
               /\ heap'[p].frees = 1
          /\ \A p \in InstIds \ Owned(sel[last'.self]) : heap'[p] = heap[p]
          /\ Owned(sel'[last'.self]) = {}
     /\ (\A s \in Selectors : sel'[s].status # "alive") =>
          \A p \in InstIds : heap'[p].state # "live"]_vars

\* The last selector alive has just been destroyed while it held an instance.
C9_Witness ==
  /\ last.op = "Destroy"
  /\ \A s \in Selectors : sel[s].status # "alive"
  /\ \E p \in InstIds : heap[p].state = "released"

\* C10 (Fit with tag NONE): a Fit on a selector whose scalerType is NONE
\* returns normally and changes no selector and no instance.
C10_FitNoneNoOp ==
  [][(last'.op = "Fit" /\ sel[last'.self].scalerType = NONE) =>
       /\ sel' = sel
       /\ heap' = heap
       /\ last'.result = "ok"
       /\ last'.inst = NULL
       /\ crashed' = crashed]_vars

\* Fit has just been called on a selector with tag NONE that holds an instance.
C10_Witness ==
  /\ last.op = "Fit"
  /\ sel[last.self].scalerType = NONE
  /\ Owned(sel[last.self]) # {}

\* C11 (round trip): when InverseTransform is called on the output that
\* Transform has just produced from a dataset through a fitted instance, with
\* no other operation in between, it delegates to that same instance, and for
\* the linear scalers (standard, min-max, mean normalization, max-abs) its
\* output is the dataset Transform was given.
C11_RoundTrip ==
  [][(/\ last.op = "Transform" /\ last.result = "delegated"
      /\ heap[last.inst].fit # 0
      /\ last'.op = "InverseTransform" /\ last'.self = last.self
      /\ last'.input = last.out) =>
       /\ last'.result = "delegated"
       /\ last'.inst = last.inst
       /\ heap'[last'.inst] = heap[last.inst]
       /\ heap[last.inst].kind \in LinearKinds => last'.out = last.input]_vars

\* InverseTransform has just given back the dataset a linear scaler was fitted
\* on, from the different matrix Transform had made of it.
C11_Witness ==
  /\ last.op = "InverseTransform"
  /\ last.result = "delegated"
  /\ heap[last.inst].kind \in LinearKinds
  /\ heap[last.inst].fit # 0
  /\ last.out = Matrix(Dataset(heap[last.inst].fit))
  /\ last.input # last.out
  /\ last.input.trail = <<>>

\* C12 (Elliot function): the vector overload Fn(x, y) returns normally with y
\* as long as x, and every y[i] is what the scalar overload returns for x[i],
\* that is y[i] * (1 + |x[i]|) = x[i].
C12_ElliotVectorMatchesScalar ==
  elliot.pc = "vector" =>
    /\ ~elliot.error
    /\ Len(elliot.y) = Len(elliot.x)
    /\ \A i \in 1..Len(elliot.x) :
         /\ elliot.y[i] = Fn(elliot.x[i])
         /\ RMul(elliot.y[i], RAdd(<<1, 1>>, RAbs(elliot.x[i]))) = elliot.x[i]

\* C13 (Fit dispatch): a Fit under a tag T other than NONE allocates exactly
\* one instance, of kind T, stores it in T's pointer and fits it on the data
\* given; a min-max scaler is constructed with the selector's minValue and
\* maxValue as they are when Fit is called, a PCA or ZCA whitening with its
\* epsilon, the other kinds without arguments.
C13_FitDispatch ==
  [][(last'.op = "Fit" /\ sel[last'.self].scalerType # NONE) =>
       /\ {p \in InstIds : heap[p].state = "unallocated"
                             /\ heap'[p].state # "unallocated"} = {last'.inst}
       /\ heap'[last'.inst].state = "live"
       /\ heap'[last'.inst].kind = sel[last'.self].scalerType
       /\ \A slot \in Slots :
            SlotKind(slot) = sel[last'.self].scalerType
              => sel'[last'.self][slot] = last'.inst
       /\ last'.result = "ok"
            => last'.input = Matrix(Dataset(heap'[last'.inst].fit))
       /\ heap'[last'.inst].a =
            (CASE sel[last'.self].scalerType = MIN_MAX_SCALER -> sel[last'.self].minValue
               [] sel[last'.self].scalerType \in {PCAWHITENING, ZCAWHITENING}
                    -> sel[last'.self].epsilon
               [] OTHER -> 0)
       /\ heap'[last'.inst].b =
            (IF sel[last'.self].scalerType = MIN_MAX_SCALER
               THEN sel[last'.self].maxValue ELSE 0)]_vars

\* A selector whose bounds were taken over from another selector by assignment
\* has just fitted a min-max scaler with those bounds.
C13_Witness ==
  /\ last.op = "Fit"
  /\ last.result = "ok"
  /\ copyOf[last.self] # 0
  /\ last.inst # NULL
  /\ heap[last.inst].kind = MIN_MAX_SCALER
  /\ heap[last.inst].a = -1
  /\ heap[last.inst].b = 2
  /\ heap[last.inst].fit # 0

\* The pointer a selector's tag selects (NULL under NONE).
Selected(obj) ==
  IF obj.scalerType = NONE
    THEN NULL
    ELSE obj[CHOOSE slot \in Slots : SlotKind(slot) = obj.scalerType]

\* C14 (Transform and InverseTransform preserve the state): a call leaves every
\* selector's tag, minValue, maxValue, epsilon and pointers and every strategy
\* instance as they were, and the only instance it calls is the one the
\* current tag selects: under NONE it calls none, and where the selected
\* pointer is null (the call is then undefined) it reaches no instance at all.
C14_TransformPreservesState ==
  [][last'.op \in {"Transform", "InverseTransform"} =>
       /\ sel' = sel
       /\ heap' = heap
       /\ \A s \in Selectors : Owned(sel'[s]) = Owned(sel[s])
       /\ last'.result \in {"delegated", "silent", "fault", "garbage"}
       /\ last'.result = "delegated" <=> Selected(sel[last'.self]) # NULL
       /\ last'.inst = Selected(sel[last'.self])
       /\ last'.result = "silent" <=> sel[last'.self].scalerType = NONE]_vars

\* A Transform has been delegated by one of two selectors that each own a
\* fitted instance.
C14_Witness ==
  /\ last.op = "Transform"
  /\ last.result = "delegated"
  /\ \A s \in Selectors : Alive(s) /\ Owned(sel[s]) # {}
  /\ heap[last.inst].fit # 0

\* The <<selector, pointer member>> pairs of live selectors that hold p.
Referrers(p) ==
  {pair \in Selectors \X Slots : Alive(pair[1]) /\ sel[pair[1]][pair[2]] = p}

\* C15 (ownership integrity): in every reachable state every non-null pointer
\* of a live selector refers to a live instance, every live instance is held
\* by exactly one pointer member of exactly one live selector, and no instance
\* has been released twice.
C15_OwnershipIntegrity ==
  /\ \A s \in Selectors : Alive(s) =>
       \A p \in Owned(sel[s]) : heap[p].state = "live"
  /\ \A p \in InstIds : heap[p].state = "live" => Cardinality(Referrers(p)) = 1
  /\ \A p \in InstIds : heap[p].frees <= 1

\* A Fit has just failed in the strategy's routine while two selectors each
\* own an instance and an earlier instance has been released.
C15_Witness ==
  /\ last.op = "Fit"
  /\ last.result = "StrategyFailure"
  /\ \A s \in Selectors : Alive(s) /\ Owned(sel[s]) # {}
  /\ \E p \in InstIds : heap[p].state = "released"

\* C16 (Transform uses the latest fit): whenever Transform or InverseTransform
\* has delegated to a strategy instance, that instance is the one the most
\* recent completed Fit on that selector installed.
C16_TransformUsesLatestFit ==
  (last.op \in {"Transform", "InverseTransform"} /\ last.result = "delegated")
    => last.inst = fitted[last.self]

====
